---- MODULE Spec2Model ----
(***************************************************************************)
(* fibvec: a vector of integers stored as Fibonacci codewords in a bit     *)
(* array, with sampled rank/select arrays to reach the i-th codeword.      *)
(*                                                                         *)
(* Go's uint64 does not fit a TLC integer, so a uint64 is a tuple of four  *)
(* 16-bit limbs, least significant first, and all arithmetic on it is      *)
(* modulo 2^64 as in Go.  The bit array is the sequence of its bits in     *)
(* stream order (bit 0 of word 0 first); a uint64 word of the array is a   *)
(* window of 64 of them and a byte a window of 8 (little-endian view).     *)
(***************************************************************************)
EXTENDS Integers, Sequences, FiniteSets, TLC

VARIABLES v, vals, last, data, rd, array, values, result

vars == <<v, vals, last, data, rd, array, values, result>>

(***************************************************************************)
(* uint64 arithmetic on limbs                                              *)
(***************************************************************************)
LimbBase == 2 ^ 16

U(a) == <<a % LimbBase, a \div LimbBase, 0, 0>>

AddU(x, y) ==
  LET s1 == x[1] + y[1]
      s2 == x[2] + y[2] + s1 \div LimbBase
      s3 == x[3] + y[3] + s2 \div LimbBase
      s4 == x[4] + y[4] + s3 \div LimbBase
  IN  <<s1 % LimbBase, s2 % LimbBase, s3 % LimbBase, s4 % LimbBase>>

SubU(x, y) ==
  LET d1 == x[1] - y[1]
      b1 == IF d1 < 0 THEN 1 ELSE 0
      d2 == x[2] - y[2] - b1
      b2 == IF d2 < 0 THEN 1 ELSE 0
      d3 == x[3] - y[3] - b2
      b3 == IF d3 < 0 THEN 1 ELSE 0
      d4 == x[4] - y[4] - b3
  IN  <<d1 % LimbBase, d2 % LimbBase, d3 % LimbBase, d4 % LimbBase>>

\* x * c modulo 2^64, for a multiplier 0 <= c < 2^15
MulU(x, c) ==
  LET p1 == x[1] * c
      p2 == x[2] * c + p1 \div LimbBase
      p3 == x[3] * c + p2 \div LimbBase
      p4 == x[4] * c + p3 \div LimbBase
  IN  <<p1 % LimbBase, p2 % LimbBase, p3 % LimbBase, p4 % LimbBase>>

LtU(x, y) ==
  \/ x[4] < y[4]
  \/ x[4] = y[4] /\ x[3] < y[3]
  \/ x[4] = y[4] /\ x[3] = y[3] /\ x[2] < y[2]
  \/ x[4] = y[4] /\ x[3] = y[3] /\ x[2] = y[2] /\ x[1] < y[1]

LeU(x, y) == x = y \/ LtU(x, y)

\* the sign bit (bit 63) of a uint64, and the word with that bit set / cleared
SignLimb == 2 ^ 15
HasSignBit(x) == x[4] >= SignLimb
SetSignBit(x) == <<x[1], x[2], x[3], (x[4] % SignLimb) + SignLimb>>
ClearSignBit(x) == <<x[1], x[2], x[3], x[4] % SignLimb>>

(***************************************************************************)
(* Fibonacci tables                                                        *)
(***************************************************************************)
\* number of entries of fib: fib[92] is the last Fibonacci number below 2^64
FibLen == 93

\* fib[i] = fib[i-1] + fib[i-2], one more entry
fibNext(f) == Append(f, AddU(f[Len(f)], f[Len(f) - 1]))

RECURSIVE fibFill(_)
\* for i := 2; i < len(fib); i++ (four entries a step)
fibFill(f) ==
  IF Len(f) >= FibLen THEN SubSeq(f, 1, FibLen)
  ELSE fibFill(fibNext(fibNext(fibNext(fibNext(f)))))

\* fib[i] is the ith fibonacci number, fib[0] = 1, fib[1] = 1, fib[2] = 2 ...
fibSeq == fibFill(<<U(1), U(1)>>)
fib == [i \in 0 .. FibLen - 1 |-> fibSeq[i + 1]]

\* fib[i] as a plain integer, for the small indices the byte tables use
fib8 == [i \in 0 .. 9 |-> fib[i][1]]

(***************************************************************************)
(* Encoder                                                                 *)
(***************************************************************************)
\* for fib[p] <= n { p++ } from p = 1: the first p with fib[p] > n.  fib is
\* increasing from index 1 on, so that is 1 + the number of such fib[p] <= n.
fencodeFirst(n) == 1 + Cardinality({p \in 1 .. FibLen - 1 : LeU(fib[p], n)})

RECURSIVE fencodeRun(_, _, _)
\* the turns of the loop for positions p down to lo: a 1 where fib[p] fits
\* in what is left of n (st holds n and the bits written so far, in stream
\* order)
fencodeRun(p, lo, st) ==
  IF p < lo THEN st
  ELSE IF LeU(fib[p], st.n)
       THEN fencodeRun(p - 1, lo, [n |-> SubU(st.n, fib[p]), fn |-> Append(st.fn, 1)])
       ELSE fencodeRun(p - 1, lo, [n |-> st.n, fn |-> Append(st.fn, 0)])

RECURSIVE fencodeLoop(_, _)
\* for p >= 0 { ... p-- }, eight positions at a time.  Position 0 is left
\* out: nothing is left of n after position 1, and its bit lies beyond lfn.
fencodeLoop(p, st) ==
  IF p < 1 THEN st.fn
  ELSE LET lo == IF p > 8 THEN p - 7 ELSE 1
       IN  fencodeLoop(lo - 1, fencodeRun(p, lo, st))

\* fencode returns the fibonacci coded value of n, reversed: the bits in
\* stream order are the closing 1, then positions p-1 .. 1, so that the two
\* first bits are always 11.  Its length is the size lfn the code returns.
fencode(n) == fencodeLoop(fencodeFirst(n) - 1, [n |-> n, fn |-> <<1>>])

\* fibencode adds 2 to n so that the minimum encoded value is 011
fibencode(n) == fencode(AddU(n, U(2)))

(***************************************************************************)
(* Bytes: a byte is an integer 0 .. 255                                    *)
(***************************************************************************)
Shl8(b, k) == (b * (2 ^ k)) % 256
Msb(b) == b \div 128

RECURSIVE fdecodeLoop(_, _, _, _)
fdecodeLoop(bits, n, pbit, shift) ==
  IF bits = 0 THEN [dec |-> n, shift |-> shift, complete |-> FALSE]
  ELSE LET sh == shift + 1
           bit == Msb(bits)
       IN  IF bit = 1 /\ pbit = 1
           THEN [dec |-> n, shift |-> sh, complete |-> TRUE]
           ELSE fdecodeLoop(Shl8(bits, 1),
                            IF bit = 1 THEN (n + fib8[sh]) % 256 ELSE n,
                            bit, sh)

\* fdecode decodes the first fibonacci code in bits starting from the most
\* significant bit: the decoded value, its size, and whether it is complete
fdecode(bits) == fdecodeLoop(bits, 0, 0, 0)

RECURSIVE lfibshift1Loop(_, _, _, _)
lfibshift1Loop(bits, n, pbit, shift) ==
  IF bits = 0 THEN n
  ELSE LET bit == Msb(bits)
       IN  IF bit = 1 /\ pbit = 1 THEN n
           ELSE lfibshift1Loop(Shl8(bits, 1),
                               IF bit = 1 THEN (n + fib8[shift]) % 256 ELSE n,
                               bit, shift + 1)

\* lfibshift1 computes V(F(n) >>f 1) where bits is F(n)
lfibshift1(bits) == lfibshift1Loop(bits, 0, 0, 0)

Reverse(s) == [i \in 1 .. Len(s) |-> s[Len(s) + 1 - i]]

RECURSIVE createRecordLoop(_, _)
\* for bits != 0 { dec, shift, complete = fdecode(bits) ... bits <<= shift }
createRecordLoop(bits, st) ==
  IF bits = 0 THEN st
  ELSE LET Turn(d) ==
             createRecordLoop(Shl8(bits, d.shift),
                              [shift |-> d.shift,
                               processed |-> (st.processed + d.shift) % 256,
                               complete |-> d.complete,
                               numbers |-> Append(st.numbers, d.dec)])
       IN  Turn(fdecode(bits))

createRecord(bits, length) ==
  LET Record(sh, nums) ==
        IF sh > 0
        THEN IF Len(nums) > 0
             THEN [shift |-> sh, numbers |-> Tail(nums), incomplete |-> nums[1]]
             ELSE [shift |-> sh, numbers |-> <<>>, incomplete |-> 0]
        ELSE [shift |-> sh, numbers |-> nums, incomplete |-> 0]
      Finish(st) ==
        Record(IF st.processed < length
               THEN IF st.complete THEN length - st.processed
                    ELSE (st.shift + length - st.processed) % 256
               ELSE IF st.complete THEN 0 ELSE st.shift,
               Reverse(IF st.processed < length /\ st.complete
                       THEN Append(st.numbers, 0) ELSE st.numbers))
  IN  Finish(createRecordLoop(bits, [shift |-> 0, processed |-> 0,
                                     complete |-> FALSE, numbers |-> <<>>]))

\* the two decoding tables: the second one is used for a byte whose closing
\* 1 is the first bit of the next byte
fibTable1 == [i \in 0 .. 255 |-> createRecord(i, 8)]
fibTable2 == [i \in 0 .. 255 |->
                IF Msb(i) = 1 THEN createRecord(Shl8(i, 1), 7) ELSE fibTable1[i]]
fdecTable == <<fibTable1, fibTable2>>

\* the top byte of the codeword of i shifted to the top of a 64-bit word
TopByte(fc) ==
  LET l == Len(fc)
      bitAt(j) == IF j >= 64 - l /\ j - (64 - l) < l THEN fc[j - (64 - l) + 1] ELSE 0
  IN  bitAt(56) + 2 * bitAt(57) + 4 * bitAt(58) + 8 * bitAt(59)
      + 16 * bitAt(60) + 32 * bitAt(61) + 64 * bitAt(62) + 128 * bitAt(63)

\* vf1 is the right shifted value of i, ie. V(F(n) >>f 1) where i is V(F(n))
vf1 == [i \in 0 .. 54 |-> IF i = 0 THEN 0 ELSE lfibshift1(TopByte(fencode(U(i))))]

\* lfibshift without the term of the shifted value's own right shift
lfibshiftOneTerm(n, shift) == MulU(fib[shift], n)

\* lfibshift performs fibonacci left shift on n, modulo 2^64
lfibshift(n, shift) == AddU(MulU(fib[shift], n), MulU(fib[shift - 1], vf1[n]))

\* what a call yields in place of a uint when fib[shift] is indexed beyond the
\* table (a run-time panic: index out of range)
IndexPanic == <<-1, -1, -1, -1>>

\* the decoder panicked: the values it had decoded end with IndexPanic
Panicked(res) == res # <<>> /\ res[Len(res)] = IndexPanic

RECURSIVE decodeBufferLoop(_, _, _, _)
decodeBufferLoop(fbuffer, i, shift, sum) ==
  IF i < 1 THEN sum
  ELSE IF shift >= FibLen THEN IndexPanic
  ELSE decodeBufferLoop(fbuffer, i - 1, shift + 8,
                        AddU(sum, lfibshift(fbuffer[i], shift)))

decodeBuffer(fbuffer, shift) ==
  LET n == Len(fbuffer)
  IN  IF n = 0 THEN U(0)
      ELSE decodeBufferLoop(fbuffer, n - 1, shift, U(fbuffer[n]))

(***************************************************************************)
(* Decoder                                                                 *)
(***************************************************************************)
\* if dec > 1 { result = append(result, dec-2) }
Emit(res, dec) ==
  IF dec = IndexPanic THEN Append(res, IndexPanic)
  ELSE IF LtU(U(1), dec) THEN Append(res, SubU(dec, U(2)))
  ELSE res

\* the decoder ends after a value was appended: it is the last one asked
\* for (if len(result) == count { return result }), or the call panicked
Returns(res, res2, count) ==
  Len(res2) > Len(res) /\ (Len(res2) = count \/ Panicked(res2))

RECURSIVE numbersLoop(_, _, _, _)
\* for _, num := range prevRec.numbers: the value held in fbuffer is closed
\* by num, which opens the next one (st holds shift, fbuffer and result)
numbersLoop(numbers, j, st, count) ==
  IF j > Len(numbers) \/ st.done THEN st
  ELSE LET Turn(res2) ==
             IF Returns(st.result, res2, count)
             THEN [shift |-> 0, fbuffer |-> <<>>, result |-> res2, done |-> TRUE]
             ELSE [shift |-> 0, fbuffer |-> <<numbers[j]>>,
                   result |-> res2, done |-> FALSE]
       IN  numbersLoop(numbers, j + 1,
                       Turn(Emit(st.result,
                                 decodeBuffer(st.fbuffer,
                                              IF st.shift = 0 THEN 8 ELSE st.shift))),
                       count)

\* one turn of the loop over input[1:], for the byte in (tab is fdecTable; st
\* holds prevIn, prevRec, fbuffer and result; done is set where the code
\* returns)
fibdecodeStep(tab, in, st, count) ==
  LET endWithOne == Msb(st.prevIn) = 1
      rec == tab[1][in]
      startWithOne == in % 2 = 1 /\ rec.shift > 0
      pr == IF startWithOne THEN tab[2][st.prevIn] ELSE st.prevRec
      fb1 == IF pr.shift > 0 THEN Append(st.fbuffer, pr.incomplete)
             ELSE st.fbuffer
      Closed(res, res2) ==
        [prevIn |-> in, prevRec |-> rec, fbuffer |-> <<>>, result |-> res2,
         done |-> Returns(res, res2, count)]
      After(nl) ==
        IF nl.done
        THEN [prevIn |-> in, prevRec |-> rec, fbuffer |-> <<>>,
              result |-> nl.result, done |-> TRUE]
        ELSE IF startWithOne /\ endWithOne
             THEN Closed(nl.result, Emit(nl.result, decodeBuffer(nl.fbuffer, 7)))
             ELSE [prevIn |-> in, prevRec |-> rec, fbuffer |-> nl.fbuffer,
                   result |-> nl.result, done |-> FALSE]
  IN  After(numbersLoop(pr.numbers, 1,
                        [shift |-> pr.shift, fbuffer |-> fb1,
                         result |-> st.result, done |-> FALSE],
                        count))

RECURSIVE fibdecodeRun(_, _, _, _, _, _)
\* the turns for input[k] .. input[hi], up to the one that returns
fibdecodeRun(tab, input, k, hi, st, count) ==
  IF k > hi \/ st.done THEN st
  ELSE fibdecodeRun(tab, input, k + 1, hi,
                    fibdecodeStep(tab, input[k], st, count), count)

RECURSIVE fibdecodeLoop(_, _, _, _, _)
\* for _, in := range input[1:], eight bytes at a time
fibdecodeLoop(tab, input, k, st, count) ==
  IF k > Len(input) \/ st.done THEN st.result
  ELSE LET hi == IF k + 7 < Len(input) THEN k + 7 ELSE Len(input)
       IN  fibdecodeLoop(tab, input, hi + 1,
                         fibdecodeRun(tab, input, k, hi, st, count), count)

\* fibdecode decodes the input bytes given the number of decoded values to
\* return; it returns fewer when the input ends first
fibdecode(input, count) ==
  LET From(tab) ==
        fibdecodeLoop(tab, input, 2,
                      [prevIn |-> input[1], prevRec |-> tab[1][input[1]],
                       fbuffer |-> <<>>, result |-> <<>>, done |-> FALSE],
                      count)
  IN  From(fdecTable)

(***************************************************************************)
(* The bit array (github.com/robskie/bit): its bits in stream order        *)
(***************************************************************************)
\* a uint64 as 64 bits, least significant first, from its low bits
Word(low) == SubSeq([k \in 1 .. 64 |-> IF k <= Len(low) THEN low[k] ELSE 0], 1, 64)

NewArray == <<>>

\* Array.Add(bits, size) appends the size low bits of a word
ArrayAdd(a, w, size) == a \o SubSeq(w, 1, size)

\* Array.Insert(idx, bits, size) writes the size low bits of a word at idx
ArrayInsert(a, idx, w, size) ==
  SubSeq(a, 1, idx) \o SubSeq(w, 1, size) \o SubSeq(a, idx + size + 1, Len(a))

\* n zero bits
Zeros(n) == SubSeq(Word(<<>>) \o Word(<<>>), 1, n)

RECURSIVE WordsOf(_, _)
\* the bits cut into words of 64
WordsOf(a, q) ==
  IF 64 * q >= Len(a) THEN <<>>
  ELSE <<SubSeq(a, 64 * q + 1, 64 * q + 64)>> \o WordsOf(a, q + 1)

\* Array.Bits(): the words that hold the bits, the last one zero-filled
ArrayBits(a) == WordsOf(a \o Zeros((64 - (Len(a) % 64)) % 64), 0)

RECURSIVE Flatten(_, _)
Flatten(words, q) ==
  IF q > Len(words) THEN <<>> ELSE words[q] \o Flatten(words, q + 1)

\* the first n bits of a slice of words, as the array holds them
FromWords(words, n) == SubSeq(Flatten(words, 1), 1, n)

\* byteSliceFromUint64Slice: the same memory seen as bytes (little-endian)
byteSliceFromUint64Slice(words) ==
  [b \in 1 .. 8 * Len(words) |->
     LET w == words[((b - 1) \div 8) + 1]
         o == 8 * ((b - 1) % 8)
     IN  w[o + 1] + 2 * w[o + 2] + 4 * w[o + 3] + 8 * w[o + 4]
         + 16 * w[o + 5] + 32 * w[o + 6] + 64 * w[o + 7] + 128 * w[o + 8]]

(***************************************************************************)
(* Go ints: sign and magnitude, the magnitude a uint64                     *)
(***************************************************************************)
GoInt(neg, mag) == [neg |-> neg, mag |-> mag]

\* a < b on ints
IntLt(a, b) ==
  IF a.neg /\ ~b.neg THEN TRUE
  ELSE IF ~a.neg /\ b.neg THEN FALSE
  ELSE IF a.neg THEN LtU(b.mag, a.mag)
  ELSE LtU(a.mag, b.mag)

\* 2^63
TwoTo63 == <<0, 0, 0, SignLimb>>

\* MaxValue is the maximum value that can be stored: the magnitude whose
\* sign-magnitude form is at most MaxUint64 - 3
MaxValue == GoInt(FALSE, SubU(TwoTo63, U(4)))
MinValue == GoInt(TRUE, MaxValue.mag)

\* sign-magnitude representation: the sign in the most significant bit
toSignMagnitude(n) == IF n.neg THEN SetSignBit(n.mag) ELSE n.mag
fromSignMagnitude(u) ==
  IF HasSignBit(u) THEN GoInt(TRUE, ClearSignBit(u)) ELSE GoInt(FALSE, u)

(***************************************************************************)
(* Vector                                                                  *)
(***************************************************************************)
\* sr is the rank sampling block size (bits in each rank sampling block)
sr == 512
\* ss is the number of 1s in each select sampling block
ss == 640

\* the word 0x3
Word3 == Word(<<1, 1>>)

\* a zero-value Vector
ZeroVector ==
  [bits |-> NewArray, ranks |-> <<>>, indices |-> <<>>,
   popcount |-> 0, length |-> 0, initialized |-> FALSE]

\* init: empty array, one rank and one select sample, the terminating bits
init(vec) ==
  [vec EXCEPT !.bits = ArrayAdd(NewArray, Word3, 3),
              !.ranks = <<0>>,
              !.indices = <<0>>,
              !.initialized = TRUE]

NewVector == init(ZeroVector)

\* idx ^ 0x3F
Xor3F(idx) == 64 * (idx \div 64) + (63 - (idx % 64))

RECURSIVE AddWords(_, _, _, _)
\* for _, f := range fc[1 : len(fc)-1] { Add(f, 64); lfc -= 64 }; Add(last, lfc)
AddWords(a, fc, j, lfc) ==
  IF j = Len(fc) THEN ArrayAdd(a, fc[j], lfc)
  ELSE AddWords(ArrayAdd(a, fc[j], 64), fc, j + 1, lfc - 64)

\* the codeword written at idx, over the terminating bits
WriteCode(a, idx, fc, lfc) ==
  IF lfc > 64
  THEN AddWords(ArrayInsert(a, idx, fc[1], 64), fc, 2, lfc - 64)
  ELSE ArrayInsert(a, idx, fc[1], lfc)

\* no pad
PadBitsNever(a) == a

\* a pad of three bits
PadBitsThree(a) ==
  IF (Len(a) - 1) % 64 = 62 THEN ArrayAdd(a, Word(<<1, 1, 1>>), 3) ELSE a

\* bit padding so that pairs of 1 (11s) don't get separated by array boundaries
PadBits(a) == IF (Len(a) - 1) % 64 = 62 THEN ArrayAdd(a, Word3, 2) ELSE a

\* the rank sample a new block gets
RankSample(popcount, size, overflow) ==
  IF size <= overflow THEN popcount - 1 ELSE popcount

\* the select sample a new block gets
SelectSample(idx) == Xor3F(idx)

\* Add, for n in the range of encodable values
Add(vec, n) ==
  LET v0 == IF ~vec.initialized THEN init(vec) ELSE vec
      idx == Len(v0.bits) - 3
      popcnt == v0.popcount + 1
      lenranks == Len(v0.ranks)
      lenidx == Len(v0.indices)
      Samples(size, padded, overflow) ==
        [bits |-> ArrayAdd(padded, Word3, 3),
         ranks |-> IF overflow > 0
                   THEN Append(v0.ranks, RankSample(popcnt, size, overflow))
                   ELSE v0.ranks,
         indices |-> IF popcnt - (lenidx * ss) > 0
                     THEN Append(v0.indices, SelectSample(idx))
                     ELSE v0.indices,
         popcount |-> popcnt,
         length |-> v0.length + 1,
         initialized |-> TRUE]
      Written(size, padded) ==
        Samples(size, padded, Len(padded) - (lenranks * sr))
      Write(code) ==
        Written(Len(code),
                PadBits(WriteCode(v0.bits, idx, ArrayBits(code), Len(code))))
  IN  Write(fibencode(toSignMagnitude(n)))

\* the positions (0 .. 63) that v &= v >> 1; v &= ^(v >> 1) leaves set: the
\* first bit of every 11 pair, the second one of a run of three
Pairs11(w) ==
  LET bit(k) == IF k <= 63 THEN w[k + 1] ELSE 0
      v1(k) == bit(k) = 1 /\ bit(k + 1) = 1
  IN  {k \in 0 .. 63 : v1(k) /\ ~v1(k + 1)}

\* popcount11_64 counts the number of 11 pairs in a word
popcount11_64(w) == Cardinality(Pairs11(w))

\* select11_64 returns the index of the ith 11 pair of a word (bit.Select of
\* a rank the word does not have is taken to be 64)
select11_64(w, i) ==
  LET P == Pairs11(w)
  IN  IF i >= 1 /\ i <= Cardinality(P)
      THEN CHOOSE k \in P : Cardinality({j \in P : j <= k}) = i
      ELSE 64

RECURSIVE ranksLoop(_, _, _)
\* for k, r = range rq { if r >= i { k--; break } }
ranksLoop(rq, k, i) ==
  IF k >= Len(rq) THEN Len(rq) - 1
  ELSE IF rq[k + 1] >= i THEN k - 1
  ELSE ranksLoop(rq, k + 1, i)

\* b&m == m: the word ends with 11
EndsWith11(w) == w[63] = 1 /\ w[64] = 1

\* an index out of range (a run-time panic)
OutOfRange == -1

RECURSIVE wordsLoop(_, _, _, _, _)
\* for ii, b := range vbits
wordsLoop(vbits, ii, rank, i, aidx) ==
  IF ii >= Len(vbits) - aidx THEN 0
  ELSE LET b == vbits[aidx + ii + 1]
           popcnt == popcount11_64(b)
       IN  IF EndsWith11(b) /\ aidx + ii + 1 >= Len(vbits) THEN OutOfRange
           ELSE LET corr == EndsWith11(b) /\ vbits[aidx + ii + 2][1] = 1
                    r == rank + popcnt - (IF corr THEN 1 ELSE 0)
                IN  IF r >= i
                    THEN 64 * (aidx + ii)
                         + select11_64(b, (popcnt - (IF corr THEN 1 ELSE 0)) - (r - i))
                    ELSE wordsLoop(vbits, ii + 1, r, i, aidx)

\* select11 selects the ith 11 pair
select11(vec, i) ==
  LET j == (i - 1) \div ss
      q == vec.indices[j + 1] \div sr
      rq == SubSeq(vec.ranks, q + 1, Len(vec.ranks))
      k == ranksLoop(rq, 0, i)
      vbits == ArrayBits(vec.bits)
      aidx == ((q + k) * sr) \div 64
  IN  IF j >= Len(vec.indices) \/ q > Len(vec.ranks) \/ k < 0 \/ aidx > Len(vbits)
      THEN OutOfRange
      ELSE wordsLoop(vbits, 0, rq[k + 1], i, aidx)

\* the word left as it is: the bits below the codeword are not zeroed
ClearLowNothing(w, bidx) == w

\* bits[aidx] &= ^((1 << bidx) - 1)
ClearLow(w, bidx) == Zeros(bidx) \o SubSeq(w, bidx + 1, 64)

\* bytes[idx>>3:], with two zero bytes appended when fewer than 16 are left
BytesFrom(words, idx) ==
  LET Padded(from) == IF Len(from) < 16 THEN from \o <<0, 0>> ELSE from
      From(all) == Padded(SubSeq(all, (idx \div 8) + 1, Len(all)))
  IN  From(byteSliceFromUint64Slice(words))

\* the word saved after its low bits were zeroed
SaveWordCleared(a, idx) ==
  LET w == ArrayBits(a)[(idx \div 64) + 1]
  IN  Zeros(idx % 64) \o SubSeq(w, (idx % 64) + 1, 64)

\* temp := bits[aidx]
SaveWord(a, idx) == ArrayBits(a)[(idx \div 64) + 1]

\* the array with the bits of word aidx below idx zeroed
ZeroExtraBits(a, idx) ==
  LET words == ArrayBits(a)
      aidx == idx \div 64
  IN  FromWords([words EXCEPT ![aidx + 1] = ClearLow(@, idx % 64)], Len(a))

\* the word is not written back
RestoreBitsNothing(a, idx, temp) == a

\* bits[aidx] = temp
RestoreBits(a, idx, temp) ==
  FromWords([ArrayBits(a) EXCEPT ![(idx \div 64) + 1] = temp], Len(a))

\* the sign-magnitude forms decoded from the array, starting at the byte
\* that holds idx (what the decoder left when it panicked)
Decode(a, idx, count) == fibdecode(BytesFrom(ArrayBits(a), idx), count)

\* the ints the decoder returns for them
Signed(dec) == [k \in 1 .. Len(dec) |-> fromSignMagnitude(dec[k])]

(***************************************************************************)
(* The calls on a Vector: the vector they leave and what they return.      *)
(* panic is TRUE when the call panics; a panic leaves the vector as it is  *)
(* at that point of the code.                                              *)
(***************************************************************************)
Outcome(vec, panic, ret) == [vec |-> vec, panic |-> panic, ret |-> ret]

\* n > MaxValue || n < MinValue
NotEncodable(n) == IntLt(MaxValue, n) \/ IntLt(n, MinValue)

\* Add that initializes the vector before it checks the range
AddCallInitFirst(vec, n) ==
  LET v0 == IF ~vec.initialized THEN init(vec) ELSE vec
  IN  IF NotEncodable(n) THEN Outcome(v0, TRUE, <<>>)
      ELSE Outcome(Add(v0, n), FALSE, <<>>)

\* Add that counts the value before it checks the range
AddCallCountFirst(vec, n) ==
  IF NotEncodable(n) THEN Outcome([vec EXCEPT !.length = @ + 1], TRUE, <<>>)
  ELSE Outcome(Add(vec, n), FALSE, <<>>)

\* Vector.Add
AddCall(vec, n) ==
  IF NotEncodable(n) THEN Outcome(vec, TRUE, <<>>)
  ELSE Outcome(Add(vec, n), FALSE, <<>>)

\* bits[aidx] with aidx beyond the words of the array (a run-time panic)
NoSuchWord(a, idx) == idx = OutOfRange \/ idx \div 64 >= (Len(a) + 63) \div 64

\* Get and GetValues after their checks: select, save and zero the extra
\* bits, decode count values, restore (a panic of the decoder leaves the
\* bits zeroed)
ReadValues(vec, first, count) ==
  LET Done(idx, zeroed, dec) ==
        IF Panicked(dec)
        THEN Outcome([vec EXCEPT !.bits = zeroed], TRUE, <<>>)
        ELSE Outcome([vec EXCEPT !.bits = RestoreBits(zeroed, idx,
                                                      SaveWord(vec.bits, idx))],
                     FALSE, Signed(dec))
      Read(idx, zeroed) == Done(idx, zeroed, Decode(zeroed, idx, count))
      At(idx) ==
        IF NoSuchWord(vec.bits, idx) THEN Outcome(vec, TRUE, <<>>)
        ELSE Read(idx, ZeroExtraBits(vec.bits, idx))
  IN  At(select11(vec, first + 1))

\* Vector.Get: result[0] of an empty result panics, after the bits were
\* restored
GetCall(vec, i) ==
  IF i >= vec.length \/ i < 0 THEN Outcome(vec, TRUE, <<>>)
  ELSE LET Result(r) ==
             IF ~r.panic /\ r.ret = <<>> THEN Outcome(r.vec, TRUE, <<>>) ELSE r
       IN  Result(ReadValues(vec, i, 1))

\* GetValues without the check of end against the length
GetValuesCallNoUpperBound(vec, start, end) ==
  IF end - start <= 0 \/ start < 0 \/ end < 0 THEN Outcome(vec, TRUE, <<>>)
  ELSE ReadValues(vec, start, end - start)

\* Vector.GetValues
GetValuesCall(vec, start, end) ==
  IF end - start <= 0 \/ start < 0 \/ end < 0 \/ end > vec.length
  THEN Outcome(vec, TRUE, <<>>)
  ELSE ReadValues(vec, start, end - start)

\* Vector.Len
LenCall(vec) == vec.length

(***************************************************************************)
(* Inputs                                                                  *)
(***************************************************************************)
\* the most Adds a run makes on a vector that starts empty (a vector that
\* starts with six long values gets one more)
MaxAdds == 3

Zero == GoInt(FALSE, U(0))
MinusOne == GoInt(TRUE, U(1))
\* two values whose codewords have 63 bits, the last one 0 and 1
Code63a == GoInt(FALSE, SubU(fib[62], U(2)))
Code63b == GoInt(FALSE, SubU(fib[62], U(1)))
\* not encodable
AboveMax == GoInt(FALSE, AddU(MaxValue.mag, U(1)))
BelowMin == GoInt(TRUE, AddU(MaxValue.mag, U(1)))

Encodable == {Zero, MinusOne, Code63a, Code63b, MaxValue, MinValue}
Inputs == Encodable \cup {AboveMax, BelowMin}

\* a value whose codeword has 47 bits
Code47 == GoInt(FALSE, SubU(fib[46], U(2)))
\* values whose codewords have 45 and 65 bits
Code45 == GoInt(FALSE, SubU(fib[44], U(2)))
Code65 == GoInt(FALSE, SubU(fib[64], U(2)))
\* six values whose codewords end two bits before the second rank sampling
\* block (five of 93 bits, one of 45)
ShortOfBlock == <<MinValue, MinValue, MinValue, MinValue, MinValue, Code45>>
\* six values whose codewords reach into the second rank sampling block, six
\* whose codewords end with the first one (five of 93 bits, one of 47), and
\* seven whose last codeword starts two bits before the second block and is
\* followed by the pad
LongValues ==
  {<<MinValue, MinValue, MinValue, MinValue, MinValue, MinValue>>,
   <<MinValue, MinValue, MinValue, MinValue, MinValue, Code47>>,
   Append(ShortOfBlock, Code65)}

RECURSIVE AddAll(_, _)
\* the vector after the values of s were added in order
AddAll(vec, s) ==
  IF s = <<>> THEN vec
  ELSE LET Rest(next) == IF next.length > 0 THEN AddAll(next, Tail(s)) ELSE next
       IN  Rest(Add(vec, Head(s)))

\* the vectors a run starts with: a new one, a zero-value one, and the new
\* ones that hold six long values
Starts ==
  {[vec |-> NewVector, vals |-> <<>>], [vec |-> ZeroVector, vals |-> <<>>]}
    \cup {[vec |-> AddAll(NewVector, s), vals |-> s] : s \in LongValues}

(***************************************************************************)
(* The sequential machine: one vector, one call at a time                  *)
(***************************************************************************)
Call(op, n, i, j, out, pre) ==
  [op |-> op, n |-> n, i |-> i, j |-> j,
   ok |-> ~out.panic, ret |-> out.ret, pre |-> pre]

Idle == <<>>

Init ==
  /\ \E s \in Starts : v = s.vec /\ vals = s.vals
  /\ last = Call("new", Zero, 0, 0, Outcome(v, FALSE, <<>>), v)
  /\ data = Idle
  /\ rd = Idle
  /\ array = Idle
  /\ values = Idle
  /\ result = Idle

\* A call that left the vector as it found it is not followed up: the calls
\* read v and vals alone, so what can follow it can follow the state before
\* it, which the search has already.
Fresh == last.op = "new" \/ v # last.pre

DoAdd ==
  /\ Fresh
  /\ \E n \in Inputs :
       \E out \in {AddCall(v, n)} :
        /\ out.panic \/ Len(vals) < MaxAdds \/ vals \in LongValues
        /\ v' = out.vec
        /\ vals' = IF out.panic THEN vals ELSE Append(vals, n)
        /\ last' = Call("Add", n, 0, 0, out, v)
        /\ UNCHANGED <<data, rd, array, values, result>>

DoGet ==
  /\ Fresh
  /\ \E i \in -1 .. Len(vals) :
       \E out \in {GetCall(v, i)} :
        /\ v' = out.vec
        /\ last' = Call("Get", Zero, i, 0, out, v)
        /\ UNCHANGED <<vals, data, rd, array, values, result>>

DoGetValues ==
  /\ Fresh
  /\ \E start \in -1 .. Len(vals), end \in -1 .. Len(vals) + 1 :
       \E out \in {GetValuesCall(v, start, end)} :
        /\ v' = out.vec
        /\ last' = Call("GetValues", Zero, start, end, out, v)
        /\ UNCHANGED <<vals, data, rd, array, values, result>>

\* Len reads one field: it is called in every state, also after a call that
\* was rejected or that read the vector
DoLen ==
  /\ last.op # "Len"
  /\ last' = Call("Len", Zero, LenCall(v), 0, Outcome(v, FALSE, <<>>), v)
  /\ UNCHANGED <<v, vals, data, rd, array, values, result>>

Next == DoAdd \/ DoGet \/ DoGetValues \/ DoLen

Spec == Init /\ [][Next]_vars

(***************************************************************************)
(* Properties of the sequential machine                                    *)
(***************************************************************************)
\* C1: after the values vals were added in order to a new vector, Get(i)
\* returns vals[i] for every 0 <= i < |vals|
GetReturnsAdded ==
  (last.op = "Get" /\ 0 <= last.i /\ last.i < Len(vals))
    => (last.ok /\ last.ret = <<vals[last.i + 1]>>)

\* Get(6) of seven values panics: the seventh codeword starts at bit 510, the
\* Add that wrote it inserted the pad and sampled the rank 6 for bit 512, and
\* select11(7) finds the terminator
GetAfterPadAtSample ==
  /\ last.op = "Get" /\ ~last.ok
  /\ vals = Append(ShortOfBlock, Code65) /\ last.i = 6
  /\ v.ranks = <<0, 6>>

\* a Get of the seventh value, found from the second rank sample: the first
\* six codewords end with the first 512 bits
GetBeyondRankSample ==
  /\ last.op = "Get" /\ last.ok
  /\ Len(vals) = 7 /\ last.i = 6
  /\ vals[6] = Code47 /\ vals[7] = MinusOne
  /\ v.ranks = <<0, 6>>
  /\ last.ret = <<MinusOne>>

\* C2: GetValues(a, b) with 0 <= a < b <= |vals| returns exactly the b - a
\* values vals[a] .. vals[b-1] in order, the last stored value included
GetValuesReturnsRange ==
  (last.op = "GetValues" /\ 0 <= last.i /\ last.i < last.j /\ last.j <= Len(vals))
    => (last.ok /\ last.ret = SubSeq(vals, last.i + 1, last.j))

\* GetValues(0, 2) of two stored values returns the first one alone: 16 bytes
\* or more are left to decode, so no zero byte is appended, and the terminator
\* that closes the last value lies in the last byte
GetValuesShort ==
  /\ last.op = "GetValues" /\ last.ok
  /\ last.i = 0 /\ last.j = 2
  /\ vals = <<MaxValue, MaxValue>>
  /\ last.ret = <<MaxValue>>

\* C5: Add(n) with n > MaxValue or n < MinValue panics and leaves every
\* field of the vector as it was, also on a zero-value Vector
RejectedAddKeepsState ==
  (last.op = "Add" /\ last.n \in {AboveMax, BelowMin})
    => (~last.ok /\ v = last.pre)

\* a rejected Add on a zero-value Vector
RejectedAddOnZeroValue ==
  /\ last.op = "Add" /\ last.n = AboveMax /\ ~last.ok
  /\ last.pre = ZeroVector /\ ~v.initialized

\* C6: Get(i) with i < 0 or i >= length, and GetValues(start, end) with
\* end <= start, start < 0 or end > length, panic and modify no field
BoundsPanicTouchesNothing ==
  /\ (last.op = "Get" /\ (last.i < 0 \/ last.i >= Len(vals)))
       => (~last.ok /\ v = last.pre)
  /\ (last.op = "GetValues"
        /\ (last.j <= last.i \/ last.i < 0 \/ last.j > Len(vals)))
       => (~last.ok /\ v = last.pre)

\* Get(length) on a vector whose last word has bits below the terminator
GetPastTheEnd ==
  /\ last.op = "Get" /\ ~last.ok
  /\ last.i = Len(vals) /\ vals = <<Zero, MinusOne>>

\* C7: after k successful Adds and any rejected Adds, Gets and GetValues,
\* Len() = length = popcount = k
LenIsNumberOfAdds ==
  /\ LenCall(v) = Len(vals)
  /\ v.length = Len(vals)
  /\ v.popcount = Len(vals)
  /\ last.op = "Len" => last.i = Len(vals)

\* Len() = 2 after two Adds
LenAfterTwoAdds ==
  /\ last.op = "Len" /\ last.i = 2
  /\ vals = <<MinusOne, Code63b>>

\* C8: a Get or GetValues that returns leaves the vector exactly as it
\* found it: bits, ranks, indices, popcount and length
ReadsRestoreTheVector ==
  (last.op \in {"Get", "GetValues"} /\ last.ok) => v = last.pre

\* a Get that returned after it had cleared set bits of the word it reads
GetClearedAndRestored ==
  /\ last.op = "Get" /\ last.ok /\ last.i = 1
  /\ ZeroExtraBits(last.pre.bits, select11(last.pre, 2)) # last.pre.bits

(***************************************************************************)
(* The codec alone: a stream of codewords built as the decoder's tests     *)
(* build it, then decoded.  values are the unsigned numbers encoded so     *)
(* far, array is the stream, result what fibdecode returned.               *)
(***************************************************************************)
\* MaxUint64 - 3, the largest encodable unsigned value
MaxUnsigned == SubU(SubU(U(0), U(1)), U(3))

CodecInputs ==
  {U(0), U(1), toSignMagnitude(MinusOne), Code63a.mag, Code63b.mag, MaxUnsigned}

\* fc, lfc := fibencode(v); array.Add(f, 64) for all words but the last one,
\* array.Add(last, lfc); then the padding at an array boundary
AppendCode(a, m) ==
  LET code == fibencode(m)
  IN  PadBits(AddWords(a, ArrayBits(code), 1, Len(code)))

\* array.Add(0x3, 16): terminating bits plus padding; the bytes of the array
\* decoded for count values
DecodeStream(a, count) ==
  fibdecode(byteSliceFromUint64Slice(ArrayBits(ArrayAdd(a, Word3, 16))), count)

InitCodec ==
  /\ values = <<>>
  /\ array = NewArray
  /\ result = Idle
  /\ v = Idle /\ vals = Idle /\ last = Idle /\ data = Idle /\ rd = Idle

CodecAdd ==
  \E m \in CodecInputs :
    /\ result = Idle
    /\ Len(values) < MaxAdds
    /\ values' = Append(values, m)
    /\ array' = AppendCode(array, m)
    /\ UNCHANGED <<v, vals, last, data, rd, result>>

CodecDecode ==
  /\ result = Idle
  /\ Len(values) > 0
  /\ result' = [out |-> DecodeStream(array, Len(values))]
  /\ UNCHANGED <<v, vals, last, data, rd, array, values>>

NextCodec == CodecAdd \/ CodecDecode

SpecCodec == InitCodec /\ [][NextCodec]_vars

\* C3: the stream of the codewords of m_1 .. m_k, padded at the word
\* boundaries and closed by the terminator and zero padding, is decoded by
\* fibdecode(stream, k) to exactly m_1 .. m_k
DecodeInvertsEncode == result # Idle => result.out = values

\* three values decoded across a pad that follows a codeword ending in 1
DecodedAcrossPad ==
  /\ result # Idle
  /\ values = <<Code63b.mag, MaxUnsigned, U(0)>>
  /\ result.out = values
  /\ Len(array) > 64

(***************************************************************************)
(* Serialization: v is the vector encoded, data the gob stream (one        *)
(* message a field), rd the vector decoded into and how the call ended.    *)
(***************************************************************************)
\* the gob of the bit array: its words and its length in bits
EncodeArray(a) == [bits |-> ArrayBits(a), length |-> Len(a)]

\* the array decoded without its length: all the bits of its words
DecodeArrayWholeWords(e) == FromWords(e.bits, 64 * Len(e.bits))

DecodeArray(e) == FromWords(e.bits, e.length)

\* GobEncode: bits, ranks, indices, popcount, length, initialized, in order
GobEncode(vec) ==
  <<EncodeArray(vec.bits), vec.ranks, vec.indices,
    vec.popcount, vec.length, vec.initialized>>

\* GobDecode of a stream that holds the first Len(blob) messages: v.bits is a
\* new array before anything is decoded, all six Decode calls are made, a
\* field whose message is missing keeps the value it had, and the error is
\* the first one of the six
GobDecode(vec, blob) ==
  LET n == Len(blob)
  IN  [vec |-> [bits |-> IF n >= 1 THEN DecodeArray(blob[1]) ELSE NewArray,
                ranks |-> IF n >= 2 THEN blob[2] ELSE vec.ranks,
                indices |-> IF n >= 3 THEN blob[3] ELSE vec.indices,
                popcount |-> IF n >= 4 THEN blob[4] ELSE vec.popcount,
                length |-> IF n >= 5 THEN blob[5] ELSE vec.length,
                initialized |-> IF n >= 6 THEN blob[6] ELSE vec.initialized],
       err |-> n < 6]

\* the number of fields
NumFields == 6

GobInputs == {Zero, MinusOne, Code63b}

\* the vectors decoded into: a new one, a zero-value one, one in use
Targets == {NewVector, ZeroVector, Add(NewVector, MinusOne)}

InitGob ==
  /\ v = NewVector
  /\ vals = <<>>
  /\ data = Idle
  /\ rd = Idle
  /\ result = Idle
  /\ last = Idle /\ array = Idle /\ values = Idle

GobAdd ==
  \E n \in GobInputs :
    /\ data = Idle
    /\ Len(vals) < MaxAdds
    /\ v' = AddCall(v, n).vec
    /\ vals' = Append(vals, n)
    /\ UNCHANGED <<last, data, rd, array, values, result>>

GobEncodeCall ==
  /\ data = Idle
  /\ data' = [blob |-> GobEncode(v)]
  /\ UNCHANGED <<v, vals, last, rd, array, values, result>>

\* the stream, whole or cut after k of its messages, decoded into a target
GobDecodeCall ==
  \E target \in Targets, k \in 0 .. NumFields :
    LET out == GobDecode(target, SubSeq(data.blob, 1, k))
    IN  /\ data # Idle
        /\ rd = Idle
        /\ rd' = [pre |-> target, vec |-> out.vec, err |-> out.err, k |-> k]
        /\ UNCHANGED <<v, vals, last, data, array, values, result>>

\* Get(i) on the decoded vector and on the encoded one
GobGet ==
  /\ rd # Idle
  /\ ~rd.err
  /\ result = Idle
  /\ \E i \in 0 .. Len(vals) - 1 :
       \E w \in {GetCall(rd.vec, i)}, o \in {GetCall(v, i)} :
        /\ result' = [i |-> i, w |-> [ok |-> ~w.panic, ret |-> w.ret],
                               v |-> [ok |-> ~o.panic, ret |-> o.ret]]
        /\ rd' = [rd EXCEPT !.vec = w.vec]
        /\ v' = o.vec
        /\ UNCHANGED <<vals, last, data, array, values>>

\* one more Add on the decoded vector and on the encoded one
GobAddBoth ==
  \E n \in GobInputs :
    /\ rd # Idle
    /\ ~rd.err
    /\ result = Idle
    /\ Len(vals) <= MaxAdds
    /\ rd' = [rd EXCEPT !.vec = AddCall(rd.vec, n).vec]
    /\ v' = AddCall(v, n).vec
    /\ vals' = Append(vals, n)
    /\ UNCHANGED <<last, data, array, values, result>>

NextGob == GobAdd \/ GobEncodeCall \/ GobDecodeCall \/ GobGet \/ GobAddBoth

SpecGob == InitGob /\ [][NextGob]_vars

IsEmpty(vec) ==
  vec.length = 0 /\ vec.popcount = 0 /\ vec.bits = ArrayAdd(NewArray, Word3, 3)

\* the invariants of a vector: popcount = length, the buffer ends with the
\* terminator, the samples start at 0, and the 11 pairs of the buffer are
\* those of the length values, in increasing order, and the terminator
WellFormed(vec) ==
  /\ vec.initialized
  /\ vec.popcount = vec.length
  /\ Len(vec.bits) >= 3
  /\ SubSeq(vec.bits, Len(vec.bits) - 2, Len(vec.bits)) = <<1, 1, 0>>
  /\ Len(vec.ranks) >= 1 /\ vec.ranks[1] = 0
  /\ Len(vec.indices) >= 1 /\ vec.indices[1] = 0
  /\ \A i \in 1 .. vec.length :
       select11(vec, i) # OutOfRange /\ select11(vec, i) < select11(vec, i + 1)
  /\ select11(vec, vec.length + 1) = Len(vec.bits) - 3

\* C10: a GobDecode that fails leaves the vector empty or in a state that
\* satisfies the invariants, never with some fields from the input and the
\* others from before the call
FailedDecodeLeavesNoHybrid ==
  (rd # Idle /\ rd.err) =>
    (IsEmpty(rd.vec) \/ WellFormed(rd.vec) \/ rd.vec = ZeroVector)

\* a stream cut after the bits, decoded into a new vector
DecodeCutAfterBits ==
  /\ rd # Idle /\ rd.err /\ rd.k = 1
  /\ rd.pre = NewVector
  /\ Len(vals) = 2
  /\ rd.vec.bits = v.bits /\ rd.vec.length = 0

(***************************************************************************)
(* Two Get calls on one vector, a step of one between the steps of the     *)
(* other: select, save the word, clear its low bits, decode, restore.      *)
(* array is the buffer before the first call; rd holds the two calls and   *)
(* whether they ever were under way at the same time.                      *)
(***************************************************************************)
Readers == {1, 2}

ConcInputs == {Zero, MinusOne}

Reader(pc, i, idx, temp, ret) ==
  [pc |-> pc, i |-> i, idx |-> idx, temp |-> temp, ret |-> ret]

\* a call under way: it has started and not yet returned
InCall(r) == r.pc \in {"selected", "saved", "cleared", "decoded"}

InitConc ==
  /\ v = NewVector
  /\ vals = <<>>
  /\ rd = [calls |-> [r \in Readers |-> Reader("idle", 0, 0, <<>>, <<>>)],
           overlap |-> FALSE]
  /\ array = Idle
  /\ last = Idle /\ data = Idle /\ values = Idle /\ result = Idle

\* the vector is filled before the first Get starts
ConcAdd ==
  \E n \in ConcInputs :
    /\ array = Idle
    /\ Len(vals) < MaxAdds
    /\ v' = AddCall(v, n).vec
    /\ vals' = Append(vals, n)
    /\ UNCHANGED <<last, data, rd, array, values, result>>

\* the state of the calls after reader r moved to c
Moved(r, c) ==
  LET calls == [rd.calls EXCEPT ![r] = c]
  IN  [calls |-> calls,
       overlap |-> rd.overlap \/ \A q \in Readers : InCall(calls[q])]

\* Get(i): the checks, idx := v.select11(i + 1)
RdSelect(r) ==
  \E i \in 0 .. Len(vals) - 1 :
    LET idx == select11(v, i + 1)
    IN  /\ rd.calls[r].pc = "idle"
        /\ array' = IF array = Idle THEN [bits |-> v.bits] ELSE array
        /\ rd' = Moved(r, Reader(IF NoSuchWord(v.bits, idx) THEN "panic"
                                  ELSE "selected", i, idx, <<>>, <<>>))
        /\ UNCHANGED <<v, vals, last, data, values, result>>

\* temp := bits[aidx]
RdSave(r) ==
  LET c == rd.calls[r]
  IN  /\ c.pc = "selected"
      /\ rd' = Moved(r, [c EXCEPT !.pc = "saved", !.temp = SaveWord(v.bits, c.idx)])
      /\ UNCHANGED <<v, vals, last, data, array, values, result>>

\* bits[aidx] &= ^((1 << uint(bidx)) - 1)
RdClear(r) ==
  LET c == rd.calls[r]
  IN  /\ c.pc = "saved"
      /\ v' = [v EXCEPT !.bits = ZeroExtraBits(v.bits, c.idx)]
      /\ rd' = Moved(r, [c EXCEPT !.pc = "cleared"])
      /\ UNCHANGED <<vals, last, data, array, values, result>>

\* result := fibdecode(bytes, 1): a panic of the decoder ends the call
RdDecode(r) ==
  LET c == rd.calls[r]
      Decoded(dec) ==
        IF Panicked(dec) THEN [c EXCEPT !.pc = "panic"]
        ELSE [c EXCEPT !.pc = "decoded", !.ret = Signed(dec)]
  IN  /\ c.pc = "cleared"
      /\ rd' = Moved(r, Decoded(Decode(v.bits, c.idx, 1)))
      /\ UNCHANGED <<v, vals, last, data, array, values, result>>

\* bits[aidx] = temp; return result[0]
RdRestore(r) ==
  LET c == rd.calls[r]
  IN  /\ c.pc = "decoded"
      /\ v' = [v EXCEPT !.bits = RestoreBits(v.bits, c.idx, c.temp)]
      /\ rd' = Moved(r, [c EXCEPT !.pc = IF c.ret = <<>> THEN "panic" ELSE "done"])
      /\ UNCHANGED <<vals, last, data, array, values, result>>

NextConc ==
  \/ ConcAdd
  \/ \E r \in Readers : RdSelect(r)
  \/ \E r \in Readers : RdSave(r)
  \/ \E r \in Readers : RdClear(r)
  \/ \E r \in Readers : RdDecode(r)
  \/ \E r \in Readers : RdRestore(r)

SpecConc == InitConc /\ [][NextConc]_vars

\* both calls are over
BothReturned == \A r \in Readers : rd.calls[r].pc \in {"done", "panic"}

\* a call panicked or returned another value than the one stored at its
\* index, or the buffer is not the one the calls started with
ReadersWentWrong ==
  \/ \E r \in Readers :
       \/ rd.calls[r].pc = "panic"
       \/ rd.calls[r].pc = "done" /\ rd.calls[r].ret # <<vals[rd.calls[r].i + 1]>>
  \/ BothReturned /\ v.bits # array.bits

\* C9: two Get calls on one vector with no Add go wrong (a wrong value
\* returned, or the buffer changed once both have returned) in some
\* interleaving of their steps, and only when the two calls were under way
\* at the same time
OnlyOverlappingReadersGoWrong == ReadersWentWrong => rd.overlap

\* both calls returned, one of them a wrong value, and the buffer is left
\* changed
ReadersCorruptedTheBuffer ==
  /\ BothReturned
  /\ rd.overlap
  /\ v.bits # array.bits
  /\ \E r \in Readers :
       rd.calls[r].pc = "done" /\ rd.calls[r].ret # <<vals[rd.calls[r].i + 1]>>

(***************************************************************************)
(* The rank and select samples: Adds alone, the bit at which each codeword *)
(* was written kept in data.starts, and select11 probed in result          *)
(***************************************************************************)
SampleInputs == {Zero, MinusOne, Code63b, Code65, MinValue}

\* the values a run starts with: none, or six long ones around the end of the
\* first rank sampling block
SampleStarts == {<<>>, ShortOfBlock} \cup {s \in LongValues : Len(s) = 6}

\* idx := v.bits.Len() - 3, the bit at which Add writes the codeword
StartIdx(vec) == Len((IF ~vec.initialized THEN init(vec) ELSE vec).bits) - 3

RECURSIVE StartsAll(_, _)
\* the idx of every Add when the values of s are added in order
StartsAll(vec, s) ==
  IF s = <<>> THEN <<>>
  ELSE <<StartIdx(vec)>> \o StartsAll(Add(vec, Head(s)), Tail(s))

\* only zeros were added
ZeroRun(s) == \A k \in 1 .. Len(s) : s[k] = Zero

\* the ranks select11 is probed with: the first and the last four
Probes(length) == {i \in 1 .. length : i <= 4 \/ i > length - 4}

InitSamples ==
  /\ \E s \in SampleStarts :
       /\ v = AddAll(NewVector, s)
       /\ vals = s
       /\ data = [starts |-> StartsAll(NewVector, s)]
  /\ result = Idle
  /\ last = Idle /\ rd = Idle /\ array = Idle /\ values = Idle

\* Add(n): any value while the vector is short or as it started, zeros up to
\* the second select sample
SampleAdd ==
  /\ result = Idle
  /\ \E n \in SampleInputs :
       /\ \/ Len(vals) < MaxAdds
          \/ vals \in SampleStarts
          \/ n = Zero /\ ZeroRun(vals) /\ Len(vals) <= ss
       /\ v' = Add(v, n)
       /\ vals' = Append(vals, n)
       /\ data' = [starts |-> Append(data.starts, StartIdx(v))]
       /\ UNCHANGED <<last, rd, array, values, result>>

\* select11(i)
SampleSelect ==
  /\ result = Idle
  /\ \E i \in Probes(v.length) :
       result' = [i |-> i, idx |-> select11(v, i)]
  /\ UNCHANGED <<v, vals, last, data, rd, array, values>>

NextSamples == SampleAdd \/ SampleSelect

SpecSamples == InitSamples /\ [][NextSamples]_vars

\* the number of codewords whose leading 11 pair starts before bit b
PairsBefore(b) == Cardinality({k \in 1 .. Len(data.starts) : data.starts[k] < b})

\* C11: after every Add, ranks[q] is the number of stored codewords whose
\* leading 11 pair starts strictly before bit q * sr, and ranks[q] <=
\* ranks[q + 1]
RankSamplesCountPairs ==
  /\ \A q \in 0 .. Len(v.ranks) - 1 : v.ranks[q + 1] = PairsBefore(q * sr)
  /\ \A q \in 1 .. Len(v.ranks) - 1 : v.ranks[q] <= v.ranks[q + 1]

\* the Add of a 65-bit codeword at bit 510 inserted the pad and sampled the
\* rank 6 for bit 512, before which seven codewords start
RankSampleShort ==
  /\ vals = Append(ShortOfBlock, Code65)
  /\ data.starts[7] = 510
  /\ Len(v.bits) = 580
  /\ v.ranks = <<0, 6>>
  /\ PairsBefore(sr) = 7

\* C12: after every Add, every select sample indices[j] with j >= 1 is a
\* multiple of 64 and is the start bit of the (j * ss + 1)-th codeword with
\* its low 6 bits cleared
SelectSamplesAligned ==
  \A j \in 1 .. Len(v.indices) - 1 :
    /\ v.indices[j + 1] % 64 = 0
    /\ v.indices[j + 1] = 64 * (data.starts[(j * ss) + 1] \div 64)

\* the Add of the 641st value sampled its start bit with the low 6 bits
\* flipped
SelectSampleFlipped ==
  /\ Len(vals) = ss + 1
  /\ ZeroRun(vals)
  /\ Len(v.indices) = 2
  /\ v.indices[2] = Xor3F(data.starts[ss + 1])
  /\ v.indices[2] # 64 * (data.starts[ss + 1] \div 64)

\* C13: after any sequence of Adds, select11(i) with 1 <= i <= length is the
\* bit at which the codeword written by the i-th Add begins (no pad pair, no
\* terminator, no pair of a last bit and a pad is counted, and no index out
\* of range is read)
SelectFindsCodeword ==
  result # Idle => result.idx = data.starts[result.i]

\* select11(7) is the bit of the terminator: the seventh codeword starts at
\* bit 510, but the rank sample of bit 512 counts six codewords before it
SelectFoundTerminator ==
  /\ result # Idle
  /\ vals = Append(ShortOfBlock, Code65)
  /\ result.i = 7
  /\ data.starts[7] = 510
  /\ result.idx = Len(v.bits) - 3

\* bits k .. k + n - 1 of the buffer (k from 0) are all 1
Ones(k, n) == \A j \in k + 1 .. k + n : v.bits[j] = 1

PairsNotSplit ==
  /\ (Len(v.bits) - 3) % 64 # 63
  /\ Ones(Len(v.bits) - 3, 2)
  /\ \A k \in 1 .. Len(data.starts) :
       data.starts[k] % 64 # 63 /\ Ones(data.starts[k], 2)

\* a 63-bit codeword, the pad at bits 63 and 64, the terminator at bit 65
PadBeforeTerminator ==
  /\ vals = <<Code63b>>
  /\ data.starts = <<0>>
  /\ Len(v.bits) = 68
  /\ Ones(62, 5)

====
